---- MODULE Spec2Model ----
(***************************************************************************)
(* Model of buildHtml of src/src/exportPage.ts (the current variant, from  *)
(* line 1151 on): table-of-contents construction, the block scan loop, the *)
(* image rewrite loop and the reconstruction of the markdown text.         *)
(*                                                                         *)
(* Texts are TLA+ strings; positions are 1-based (JavaScript index + 1).   *)
(* A TLA+ string literal cannot hold the backtick (U+0060), so BQ, the     *)
(* apostrophe, stands for the backtick everywhere in this module.          *)
(***************************************************************************)
EXTENDS Integers, Sequences, FiniteSets, TLC

VARIABLES markdownText, pc, title, tocStringList, tocNodes, tocString,
          tocStack, i, tocHtmlString, markdownBlockList, markdownTextTarget,
          imgSrcList, markdownTextReconstructed,
          zennContent, readResult, warnings, html, formatResult

\* The state of the image resolution pass and of the end of buildHtml.
rvars == <<zennContent, readResult, warnings, html, formatResult>>

\* The state of one call of buildHtml.
bvars == <<markdownText, pc, title, tocStringList, tocNodes, tocString,
           tocStack, i, tocHtmlString, markdownBlockList, markdownTextTarget,
           imgSrcList, markdownTextReconstructed, rvars>>

\* The state of one call of exportWorkspace.
VARIABLES workspaceFiles, wsPc, markdownFileList, folderObject, wsI,
          fileNavigationHtml, conversion, workspaceOpen, wsOutFolder

wvars == <<workspaceFiles, wsPc, markdownFileList, folderObject, wsI,
           fileNavigationHtml, conversion, workspaceOpen, wsOutFolder>>

\* exportPage: the active editor's language ("none" without an editor), the
\* arguments, the document and the file system it meets, and its progress.
\* pagePc:
\*   "idle"          exportPage is not called
\*   "start"         called
\*   "aborted"       the error message of line 1477 is shown; returned
\*   "opening"       the awaited openTextDocument of line 1481 is pending
\*   "rejected"      openTextDocument rejected, and exportPage with it
\*   "prepare"       doc is known; lines 1482-1504 are next
\*   "buildRejected" buildHtml threw before its await; its promise rejected
\*   "format"        buildHtml awaits promiseHtml (line 1460)
\*   "writing"       fs.writeFile is issued (line 1507)
\*   "done"          the callback of fs.writeFile has run
VARIABLES activeEditor, uriGiven, docDirty, docFileName, outFolder,
          outFolderExists, showNotification, pagePc, saved, statusBarMessage,
          folderCreated, outPath, promiseHtml, writeErr, timers

pageInput == <<activeEditor, uriGiven, docDirty, docFileName, outFolder,
               outFolderExists, showNotification>>

pageState == <<pagePc, saved, statusBarMessage, folderCreated, outPath,
               promiseHtml, writeErr, timers>>

\* The messages shown by window.showErrorMessage, showWarningMessage and
\* showInformationMessage outside the write callbacks of exportWorkspace.
VARIABLES notifications

pvars == <<pageInput, pageState, notifications>>

vars == <<bvars, wvars, pvars>>

\* ------------------------------------------------------------------------
\* Bounds of the model
\* ------------------------------------------------------------------------
\* Largest number of lines of a document made of mixed lines.
MaxLines == 4
\* Largest number of lines of a document made of heading lines only.
MaxHeadings == 5
\* Largest number of lines of a document made of image reference lines.
MaxImageLines == 3
\* Largest number of markdown files of a workspace.
MaxFiles == 3

\* ------------------------------------------------------------------------
\* Characters and strings
\* ------------------------------------------------------------------------
BQ == "'"
LF == "\n"
CR == "\r"
BQ3 == BQ \o BQ \o BQ
Colon3 == ":::"

Ch(s, p) == IF p >= 1 /\ p <= Len(s) THEN SubSeq(s, p, p) ELSE ""

\* s.slice(p - 1)
From(s, p) == IF p > Len(s) THEN "" ELSE SubSeq(s, p, Len(s))

\* s.slice(0, p - 1)
Before(s, p) == IF p <= 1 THEN "" ELSE SubSeq(s, 1, p - 1)

StartsWithAt(s, p, t) ==
    /\ p >= 1
    /\ p + Len(t) - 1 <= Len(s)
    /\ SubSeq(s, p, p + Len(t) - 1) = t

IsLineTerminator(c) == c \in {LF, CR}

IsWhiteSpace(c) == c \in {" ", "\t", LF, CR}

\* `$` of a regular expression with the m flag, at the position before
\* character p.
AtLineEnd(s, p) == p > Len(s) \/ IsLineTerminator(Ch(s, p))

\* `^` of a regular expression with the m flag.
AtLineStart(s, p) == p = 1 \/ IsLineTerminator(Ch(s, p - 1))

\* The first position >= q at which `$` (m flag) matches.
FirstLineEnd(s, q) ==
    CHOOSE k \in q..(Len(s) + 1) :
        /\ AtLineEnd(s, k)
        /\ \A j \in q..(k - 1) : ~AtLineEnd(s, j)

\* Length of the run of character c that starts at position p.
RunLen(s, p, c) ==
    IF Ch(s, p) # c THEN 0
    ELSE LET stop == CHOOSE k \in (p + 1)..(Len(s) + 1) :
                         /\ Ch(s, k) # c
                         /\ \A j \in p..(k - 1) : Ch(s, j) = c
         IN stop - p

\* s.split(/\n|\r/g)
RECURSIVE SplitLines(_)
SplitLines(s) ==
    LET k == FirstLineEnd(s, 1)
    IN IF k > Len(s) THEN <<s>>
       ELSE <<Before(s, k)>> \o SplitLines(From(s, k + 1))

RECURSIVE JoinLines(_)
JoinLines(ls) ==
    IF ls = <<>> THEN ""
    ELSE IF Len(ls) = 1 THEN ls[1]
    ELSE ls[1] \o LF \o JoinLines(Tail(ls))

\* s.trim()
Trim(s) ==
    IF \A p \in 1..Len(s) : IsWhiteSpace(Ch(s, p)) THEN ""
    ELSE LET a == CHOOSE p \in 1..Len(s) :
                      /\ ~IsWhiteSpace(Ch(s, p))
                      /\ \A j \in 1..(p - 1) : IsWhiteSpace(Ch(s, j))
             b == CHOOSE p \in 1..Len(s) :
                      /\ ~IsWhiteSpace(Ch(s, p))
                      /\ \A j \in (p + 1)..Len(s) : IsWhiteSpace(Ch(s, j))
         IN SubSeq(s, a, b)

\* s.replace(/^#+/, '')
StripLeadingHashes(s) == From(s, RunLen(s, 1, "#") + 1)

\* s.replace(/#+$/, '')  (no m flag: `$` is the end of the string)
StripTrailingHashes(s) ==
    IF Ch(s, Len(s)) # "#" THEN s
    ELSE LET a == CHOOSE p \in 1..Len(s) :
                      /\ \A j \in p..Len(s) : Ch(s, j) = "#"
                      /\ Ch(s, p - 1) # "#"
         IN Before(s, a)

\* s.replace(/<!--(.*?)-->/g, '') on a single line
RECURSIVE RemoveComments(_)
RemoveComments(s) ==
    IF \E a \in 1..Len(s) :
           /\ StartsWithAt(s, a, "<!--")
           /\ \E b \in (a + 4)..Len(s) : StartsWithAt(s, b, "-->")
    THEN LET a == CHOOSE p \in 1..Len(s) :
                      /\ StartsWithAt(s, p, "<!--")
                      /\ \E b \in (p + 4)..Len(s) : StartsWithAt(s, b, "-->")
                      /\ \A j \in 1..(p - 1) :
                             ~(/\ StartsWithAt(s, j, "<!--")
                               /\ \E b \in (j + 4)..Len(s) :
                                      StartsWithAt(s, b, "-->"))
             b == CHOOSE p \in (a + 4)..Len(s) :
                      /\ StartsWithAt(s, p, "-->")
                      /\ \A j \in (a + 4)..(p - 1) : ~StartsWithAt(s, j, "-->")
         IN Before(s, a) \o RemoveComments(From(s, b + 3))
    ELSE s

\* ------------------------------------------------------------------------
\* getDocumentTitle and the heading lines
\* ------------------------------------------------------------------------
\* lineText.startsWith('#') && /^#{1,6} /.test(lineText)
IsAtxLine(line) ==
    LET n == RunLen(line, 1, "#")
    IN n >= 1 /\ n <= 6 /\ Ch(line, n + 1) = " "

\* /^#{2,6} /.test(lineText)
IsTocLine(line) ==
    LET n == RunLen(line, 1, "#")
    IN n >= 2 /\ n <= 6 /\ Ch(line, n + 1) = " "

\* The title left undefined when the document has no heading.
getDocumentTitleNoFallback(text) ==
    LET atx == SelectSeq(SplitLines(text), IsAtxLine)
    IN IF atx # <<>>
       THEN Trim(StripTrailingHashes(StripLeadingHashes(
                Trim(RemoveComments(atx[1])))))
       ELSE "undefined"

getDocumentTitle(text) ==
    LET atx == SelectSeq(SplitLines(text), IsAtxLine)
    IN IF atx # <<>>
       THEN Trim(StripTrailingHashes(StripLeadingHashes(
                Trim(RemoveComments(atx[1])))))
       ELSE "Untitled"

\* text.replace(/^DDD[\s\S]*?DDD/g, '') for a three-character delimiter d.
\* Without the m flag `^` matches at the start of the text only.
StripLeadingBlock(s, d) ==
    IF /\ StartsWithAt(s, 1, d)
       /\ \E k \in 4..Len(s) : StartsWithAt(s, k, d)
    THEN LET k == CHOOSE p \in 4..Len(s) :
                      /\ StartsWithAt(s, p, d)
                      /\ \A j \in 4..(p - 1) : ~StartsWithAt(s, j, d)
         IN From(s, k + 3)
    ELSE s

markdownTextWithoutCodeBlock(text) ==
    StripLeadingBlock(StripLeadingBlock(text, BQ3), Colon3)

\* The heading lines of depth 2..6, with "# " + title put in front.
TocStringListOf(text) ==
    <<"# " \o getDocumentTitle(text)>>
        \o SelectSeq(SplitLines(markdownTextWithoutCodeBlock(text)), IsTocLine)

\* header.match(/^#+/)?.[0].length || 0
HeaderLevel(header) == RunLen(header, 1, "#")

\* header.replace(/^#+/, '').replace(/#+$/, '').trim()
HeaderText(header) == Trim(StripTrailingHashes(StripLeadingHashes(header)))

\* ------------------------------------------------------------------------
\* The heading tree
\* ------------------------------------------------------------------------
\* tocNodes is the heap of headerObjects, in creation order; a headerObject is
\* referred to by its index in tocNodes.  tocString and tocStack hold such
\* indices; Undefined is an absent array element.
Undefined == 0

\* arr[idx] of a JavaScript array (idx is the 0-based index)
ArrayGet(arr, idx) ==
    IF idx >= 0 /\ idx < Len(arr) THEN arr[idx + 1] ELSE Undefined

\* arr[idx] = v of a JavaScript array: elements between the old length and
\* idx become holes.
ArraySet(arr, idx, v) ==
    [k \in 1..(IF idx + 1 > Len(arr) THEN idx + 1 ELSE Len(arr)) |->
        IF k = idx + 1 THEN v
        ELSE IF k <= Len(arr) THEN arr[k] ELSE Undefined]

\* The degenerate branch taken one heading line too late.
TocDegenerateOffByOne(n) == n <= 3

\* tocStringList.length <= 2
TocDegenerate(n) == n <= 2

\* The parent taken from the top of the stack instead of from the slot of
\* the level above.
TocParentTop(stack, headerLevel) == ArrayGet(stack, Len(stack) - 1)

\* let parent = tocStack[headerLevel - 2]
TocParent(stack, headerLevel) == ArrayGet(stack, headerLevel - 2)

\* The slot of the level written only when it is still empty.
TocStackSetOnce(stack, headerLevel, id) ==
    IF ArrayGet(stack, headerLevel - 1) # Undefined THEN stack
    ELSE ArraySet(stack, headerLevel - 1, id)

\* tocStack[headerLevel - 1] = headerObject
TocStackSet(stack, headerLevel, id) == ArraySet(stack, headerLevel - 1, id)

LiToken(lvl, id) == [tag |-> "li", tocLevel |-> lvl, node |-> id]
Token(t) == [tag |-> t, tocLevel |-> 0, node |-> 0]

\* tocBody: the markup of one headerObject, as the sequence of its tags.
RECURSIVE tocBody(_, _, _)
RECURSIVE tocBodyChildren(_, _, _)
tocBody(nodes, id, tocLevel) ==
    <<LiToken(tocLevel, id)>>
        \o (IF Len(nodes[id].children) > 0
            THEN <<Token("ul")>>
                     \o tocBodyChildren(nodes, nodes[id].children, tocLevel + 1)
                     \o <<Token("/ul")>>
            ELSE <<>>)
        \o <<Token("/li")>>
tocBodyChildren(nodes, ids, tocLevel) ==
    IF ids = <<>> THEN <<>>
    ELSE tocBody(nodes, ids[1], tocLevel)
             \o tocBodyChildren(nodes, Tail(ids), tocLevel)

\* ------------------------------------------------------------------------
\* codeBlockRegex
\* ------------------------------------------------------------------------
\* (:{3,}|`{3,}) matches at position p
DelimAt(s, p) == RunLen(s, p, ":") >= 3 \/ RunLen(s, p, BQ) >= 3

HasDelim(s) == \E p \in 1..Len(s) : DelimAt(s, p)

FirstDelim(s) ==
    CHOOSE p \in 1..Len(s) :
        DelimAt(s, p) /\ \A j \in 1..(p - 1) : ~DelimAt(s, j)

\* The position, within a block that opens at position index, at which the
\* lazy content ([\s\S]*?) starts: after the rest of the opening line and
\* its "\n" when the group (?:(.*$)\n)? matches, else right after the
\* delimiter.
ContentStart(s, index) ==
    LET after == index + RunLen(s, index, Ch(s, index))
        e == FirstLineEnd(s, after)
    IN IF Ch(s, e) = LF THEN e + 1 ELSE after

\* The position, at or after q, at which the lazy content stops: the first
\* one where (?:\n\1) or `$` matches.  With the m flag `$` matches at the end
\* of every line.
ContentEnd(s, q) == FirstLineEnd(s, q)

\* The result of a pattern that only looks ahead at the block: a match of
\* no character at the first delimiter.
codeBlockExecZeroWidth(s) ==
    IF ~HasDelim(s) THEN [found |-> FALSE, index |-> 0, match |-> ""]
    ELSE [found |-> TRUE, index |-> FirstDelim(s), match |-> ""]

\* codeBlockRegex.exec(s): the regular expression has no g flag, so the
\* search always starts at the beginning of s.
codeBlockExec(s) ==
    IF ~HasDelim(s) THEN [found |-> FALSE, index |-> 0, match |-> ""]
    ELSE LET index == FirstDelim(s)
             n == RunLen(s, index, Ch(s, index))
             g1 == SubSeq(s, index, index + n - 1)
             k == ContentEnd(s, ContentStart(s, index))
             stop == IF StartsWithAt(s, k, LF \o g1) THEN k + 1 + n ELSE k
         IN [found |-> TRUE, index |-> index,
             match |-> SubSeq(s, index, stop - 1)]

BlockTypeOf(codeBlock) ==
    IF StartsWithAt(codeBlock, 1, BQ3) THEN "code"
    ELSE IF StartsWithAt(codeBlock, 1, Colon3) THEN "callout"
    ELSE "unknown"

markdownBlock(text, type) == [text |-> text, type |-> type]

RECURSIVE ConcatText(_)
ConcatText(blocks) ==
    IF blocks = <<>> THEN ""
    ELSE blocks[1].text \o ConcatText(Tail(blocks))

\* ------------------------------------------------------------------------
\* imgRegex and the image rewrite loop
\* ------------------------------------------------------------------------
PlaceholderPrefix == "./TOBE_BASE64_IMGPATH_"
PlaceholderSuffix == "_TO_BE_BASE64_IMGPATH"

HasCharFrom(s, q, c) == \E p \in q..Len(s) : Ch(s, p) = c

FirstCharFrom(s, q, c) ==
    CHOOSE p \in q..Len(s) :
        Ch(s, p) = c /\ \A j \in q..(p - 1) : Ch(s, j) # c

\* imgRegex matches at position p: `^` (m flag), "![", the alt text up to the
\* first "]", "(", not the placeholder prefix, a non-empty src up to the
\* first ")", and `$` (m flag) after it.  [^\]]* and [^)]+ are greedy, so
\* group 2 takes everything between the parentheses, a sizing annotation
\* included.
ImgMatchAt(s, p) ==
    /\ AtLineStart(s, p)
    /\ StartsWithAt(s, p, "![")
    /\ HasCharFrom(s, p + 2, "]")
    /\ LET rb == FirstCharFrom(s, p + 2, "]")
       IN /\ Ch(s, rb + 1) = "("
          /\ ~StartsWithAt(s, rb + 2, PlaceholderPrefix)
          /\ HasCharFrom(s, rb + 2, ")")
          /\ LET rp == FirstCharFrom(s, rb + 2, ")")
             IN rp > rb + 2 /\ AtLineEnd(s, rp + 1)

\* imgRegex.exec(s) with imgRegex.lastIndex = lastIndex (g flag): the first
\* match at JavaScript index >= lastIndex.
imgExec(s, lastIndex) ==
    IF \E p \in (lastIndex + 1)..Len(s) : ImgMatchAt(s, p)
    THEN LET p == CHOOSE q \in (lastIndex + 1)..Len(s) :
                      /\ ImgMatchAt(s, q)
                      /\ \A j \in (lastIndex + 1)..(q - 1) : ~ImgMatchAt(s, j)
             rb == FirstCharFrom(s, p + 2, "]")
             rp == FirstCharFrom(s, rb + 2, ")")
         IN [found |-> TRUE, index |-> p, len |-> rp - p + 1,
             alt |-> SubSeq(s, p + 2, rb - 1),
             src |-> SubSeq(s, rb + 2, rp - 1)]
    ELSE [found |-> FALSE, index |-> 0, len |-> 0, alt |-> "", src |-> ""]

ImgEligible(imgSrc) ==
    /\ ~StartsWithAt(imgSrc, 1, "http://")
    /\ ~StartsWithAt(imgSrc, 1, "https://")
    /\ ~StartsWithAt(imgSrc, 1, "data:image/")
    /\ ~StartsWithAt(imgSrc, 1, "data:application/")

imgReplaced(imgAlt, imgSrc) ==
    "![" \o imgAlt \o "](" \o PlaceholderPrefix \o imgSrc
         \o PlaceholderSuffix \o ")"

\* The inner while loop of the image rewrite, on the text of one block:
\* the text and the src list it ends with.  lastIndex is the lastIndex of
\* imgRegex; it restarts at 0 once exec has returned null.
RECURSIVE ImgRewriteLoop(_, _, _)
ImgRewriteLoop(text, lastIndex, srcs) ==
    LET m == imgExec(text, lastIndex)
    IN IF ~m.found THEN [text |-> text, srcs |-> srcs]
       ELSE IF ImgEligible(m.src)
       THEN ImgRewriteLoop(
                Before(text, m.index) \o imgReplaced(m.alt, m.src)
                    \o From(text, m.index + m.len),
                m.index - 1 + m.len,
                Append(srcs, m.src))
       ELSE ImgRewriteLoop(text, m.index - 1 + m.len, srcs)

\* markdownBlock.type === 'plain' || markdownBlock.type === 'callout'
ImgScanned(type) == type \in {"plain", "callout"}

\* ------------------------------------------------------------------------
\* The image resolution pass and the page (lines 1353-1469)
\* ------------------------------------------------------------------------
\* The src attribute that the renderer writes for a placeholder reference.
PlaceholderAttr(imgSrc) ==
    "src=\"" \o PlaceholderPrefix \o imgSrc \o PlaceholderSuffix \o "\""

\* The rendered content, as the sequence of its src attributes: the renderer
\* writes one <img> per placeholder reference of the reconstructed text.
markdownToHtml(srcs) == [k \in 1..Len(srcs) |-> PlaceholderAttr(srcs[k])]

HasDot(s) == \E p \in 1..Len(s) : Ch(s, p) = "."

LastDot(s) ==
    CHOOSE p \in 1..Len(s) :
        Ch(s, p) = "." /\ \A q \in (p + 1)..Len(s) : Ch(s, q) # "."

\* path.extname(p).replace(/^\./, ''): the text after the last dot of the
\* last path segment, when that dot is not the first character of the
\* segment.
imgExt(p) ==
    IF HasDot(p)
       /\ LastDot(p) > 1
       /\ Ch(p, LastDot(p) - 1) # "/"
       /\ \A q \in LastDot(p)..Len(p) : Ch(p, q) # "/"
    THEN From(p, LastDot(p) + 1)
    ELSE ""

\* The file's content in base64 is not modelled: "BASE64" stands for it.
imgBase64String(imgSrc) ==
    "src=\"data:image/" \o imgExt(imgSrc) \o ";base64," \o "BASE64" \o "\""

\* String.prototype.replace with a string pattern: the first occurrence only.
ReplaceFirst(seq, old, new) ==
    IF \E k \in 1..Len(seq) : seq[k] = old
    THEN LET k == CHOOSE k \in 1..Len(seq) :
                     seq[k] = old /\ \A q \in 1..(k - 1) : seq[q] # old
         IN [seq EXCEPT ![k] = new]
    ELSE seq

\* The loop index after a failed read, with `break` in place of `continue`.
AfterReadFailureBreak(idx, n) == n + 1

\* The loop index after a failed read: `continue` goes on with the next src.
AfterReadFailure(idx, n) == idx + 1

NoHtml == [title |-> "", toc |-> <<>>, content |-> <<>>, formatted |-> FALSE]

zennHtml(t, toc, content) ==
    [title |-> t, toc |-> toc, content |-> content, formatted |-> FALSE]

\* The pretty-printer changes the layout of the page only.
format(h) == [h EXCEPT !.formatted = TRUE]

\* The rejection of format without the try/catch: buildHtml rejects.
FormatUncaught(h, w, t) == [pc |-> "thrown", html |-> h, warnings |-> w]

\* Lines 1461-1467, the catch block: one warning, and html = zennHtml.
FormatCaught(h, w, t) ==
    [pc |-> "returned", html |-> h,
     warnings |-> Append(w, [kind |-> "format", title |-> t, imgSrc |-> ""])]

\* ------------------------------------------------------------------------
\* Documents
\* ------------------------------------------------------------------------
ImageLine == "![a](b)"

\* The lines documents are made of: an opening or closing fence, a fence of
\* four backticks, a callout delimiter, a fence after other text, prose, an
\* image reference, headings of depth 2 and 3.
MixedLines == {BQ3, BQ3 \o BQ, Colon3, "a" \o BQ3, "a", ImageLine,
               "## h", "### k"}

HeadingLines == {"## h", "### k", "#### m", "# t"}

\* Image reference lines: a local src, the four remote or inline kinds of
\* src, a reference that already carries the placeholder, a reference with
\* a sizing annotation, an image reference left open on its line; prose and
\* the two delimiters.
ImageDocLines == {ImageLine, "![a](http://x)", "![a](https://x)",
                  "![a](data:image/x)", "![a](data:application/x)",
                  imgReplaced("a", "b"), "![a](b =1x2)", "![p](x",
                  "a", Colon3, BQ3}

LineSeqs(S, n) == UNION {[1..m -> S] : m \in 0..n}

Documents ==
    {JoinLines(ls) : ls \in LineSeqs(MixedLines, MaxLines)}
        \cup {JoinLines(ls) : ls \in LineSeqs(HeadingLines, MaxHeadings)}
        \cup {JoinLines(ls) : ls \in LineSeqs(ImageDocLines, MaxImageLines)}

\* ------------------------------------------------------------------------
\* buildHtml
\* ------------------------------------------------------------------------
\* pc is the position in buildHtml:
\*   "start"    before the table of contents is built
\*   "tocLoop"  in the for loop over tocStringList, before iteration i
\*   "tocHtml"  after the loop (or after the degenerate branch)
\*   "scan"     in the block scan loop
\*   "img"      in the image rewrite loop, before block i
\*   "done"     markdownTextReconstructed is built
\*   "resolve"  in the image resolution pass, before imgSrcList[i]
\*   "format"   zennHtml is assembled, format is pending
\*   "returned" buildHtml has returned { html }
\*   "thrown"   buildHtml has thrown (its promise is rejected)
BuildInit(documents) ==
    /\ markdownText \in documents
    /\ pc = "start"
    /\ title = ""
    /\ tocStringList = <<>>
    /\ tocNodes = <<>>
    /\ tocString = <<>>
    /\ tocStack = <<>>
    /\ i = 1
    /\ tocHtmlString = <<>>
    /\ markdownBlockList = <<>>
    /\ markdownTextTarget = ""
    /\ imgSrcList = <<>>
    /\ markdownTextReconstructed = ""
    /\ zennContent = <<>>
    /\ readResult = <<>>
    /\ warnings = <<>>
    /\ html = NoHtml
    /\ formatResult = "none"

\* exportWorkspace is not running.
WsIdle ==
    /\ workspaceFiles = {}
    /\ wsPc = "idle"
    /\ markdownFileList = <<>>
    /\ folderObject = <<>>
    /\ wsI = 1
    /\ fileNavigationHtml = <<>>
    /\ conversion = <<>>
    /\ workspaceOpen = FALSE
    /\ wsOutFolder = ""

\* exportPage is not running.
PageIdle ==
    /\ activeEditor = "none"
    /\ uriGiven = FALSE
    /\ docDirty = FALSE
    /\ docFileName = ""
    /\ outFolder = ""
    /\ outFolderExists = FALSE
    /\ showNotification = FALSE
    /\ pagePc = "idle"
    /\ saved = FALSE
    /\ statusBarMessage = "none"
    /\ folderCreated = FALSE
    /\ outPath = ""
    /\ promiseHtml = "none"
    /\ writeErr = "none"
    /\ timers = 0
    /\ notifications = <<>>

Init == BuildInit(Documents) /\ WsIdle /\ PageIdle

\* Lines 1205-1231: the title, the heading lines and the degenerate branch.
TocList ==
    /\ pc = "start"
    /\ title' = getDocumentTitle(markdownText)
    /\ tocStringList' = TocStringListOf(markdownText)
    /\ tocString' = <<>>
    /\ tocStack' = <<>>
    /\ i' = 1
    /\ pc' = IF TocDegenerate(Len(tocStringList')) THEN "tocHtml" ELSE "tocLoop"
    /\ UNCHANGED <<markdownText, tocNodes, tocHtmlString, markdownBlockList,
                   markdownTextTarget, imgSrcList, markdownTextReconstructed>>
    /\ UNCHANGED rvars
    /\ UNCHANGED wvars
    /\ UNCHANGED pvars

\* Lines 1232-1257: one iteration of the for loop.  Reading .children of an
\* undefined parent throws a TypeError, which ends buildHtml.
TocStep ==
    /\ pc = "tocLoop"
    /\ i <= Len(tocStringList)
    /\ LET header == tocStringList[i]
           headerLevel == HeaderLevel(header)
           headerObject == [header |-> header, headerLevel |-> headerLevel,
                            headerText |-> HeaderText(header),
                            children |-> <<>>]
           id == Len(tocNodes) + 1
           parent == TocParent(tocStack, headerLevel)
       IN IF headerLevel = 1
          THEN /\ tocNodes' = Append(tocNodes, headerObject)
               /\ tocString' = Append(tocString, id)
               /\ tocStack' = <<id>>
               /\ i' = i + 1
               /\ pc' = IF i = Len(tocStringList) THEN "tocHtml" ELSE "tocLoop"
          ELSE IF parent = Undefined
          THEN /\ pc' = "thrown"
               /\ UNCHANGED <<tocNodes, tocString, tocStack, i>>
          ELSE /\ tocNodes' =
                     Append([tocNodes EXCEPT ![parent].children =
                                                 Append(@, id)],
                            headerObject)
               /\ tocStack' = TocStackSet(tocStack, headerLevel, id)
               /\ i' = i + 1
               /\ pc' = IF i = Len(tocStringList) THEN "tocHtml" ELSE "tocLoop"
               /\ UNCHANGED tocString
    /\ UNCHANGED <<markdownText, title, tocStringList, tocHtmlString,
                   markdownBlockList, markdownTextTarget, imgSrcList,
                   markdownTextReconstructed>>
    /\ UNCHANGED rvars
    /\ UNCHANGED wvars
    /\ UNCHANGED pvars

\* Lines 1260-1302: the markup of the table of contents, and the start of the
\* block scan.
TocHtml ==
    /\ pc = "tocHtml"
    /\ tocHtmlString' = tocBodyChildren(tocNodes, tocString, 1)
    /\ markdownBlockList' = <<>>
    /\ markdownTextTarget' = markdownText
    /\ pc' = "scan"
    /\ UNCHANGED <<markdownText, title, tocStringList, tocNodes, tocString,
                   tocStack, i, imgSrcList, markdownTextReconstructed>>
    /\ UNCHANGED rvars
    /\ UNCHANGED wvars
    /\ UNCHANGED pvars

\* Lines 1304-1319: one iteration of the block scan loop.
ScanStep ==
    /\ pc = "scan"
    /\ LET markdownBlockMatch == codeBlockExec(markdownTextTarget)
           plainText == Before(markdownTextTarget, markdownBlockMatch.index)
           codeBlock == markdownBlockMatch.match
       IN /\ markdownBlockMatch.found
          /\ markdownBlockList' =
                 markdownBlockList
                     \o <<markdownBlock(plainText, "plain"),
                          markdownBlock(codeBlock, BlockTypeOf(codeBlock))>>
          /\ markdownTextTarget' =
                 From(markdownTextTarget,
                      markdownBlockMatch.index + Len(codeBlock))
    /\ UNCHANGED <<markdownText, pc, title, tocStringList, tocNodes,
                   tocString, tocStack, i, tocHtmlString, imgSrcList,
                   markdownTextReconstructed>>
    /\ UNCHANGED rvars
    /\ UNCHANGED wvars
    /\ UNCHANGED pvars

\* Line 1304, exec returns null: the loop ends.  Nothing is pushed for the
\* text that is left in markdownTextTarget.
ScanEnd ==
    /\ pc = "scan"
    /\ ~codeBlockExec(markdownTextTarget).found
    /\ pc' = "img"
    /\ i' = 1
    /\ imgSrcList' = <<>>
    /\ UNCHANGED <<markdownText, title, tocStringList, tocNodes, tocString,
                   tocStack, tocHtmlString, markdownBlockList,
                   markdownTextTarget, markdownTextReconstructed>>
    /\ UNCHANGED rvars
    /\ UNCHANGED wvars
    /\ UNCHANGED pvars

\* Lines 1326-1343: the image rewrite of block i.
ImgStep ==
    /\ pc = "img"
    /\ i <= Len(markdownBlockList)
    /\ LET r == ImgRewriteLoop(markdownBlockList[i].text, 0, imgSrcList)
       IN IF ImgScanned(markdownBlockList[i].type)
          THEN /\ markdownBlockList' =
                     [markdownBlockList EXCEPT ![i].text = r.text]
               /\ imgSrcList' = r.srcs
          ELSE UNCHANGED <<markdownBlockList, imgSrcList>>
    /\ i' = i + 1
    /\ UNCHANGED <<markdownText, pc, title, tocStringList, tocNodes,
                   tocString, tocStack, tocHtmlString, markdownTextTarget,
                   markdownTextReconstructed>>
    /\ UNCHANGED rvars
    /\ UNCHANGED wvars
    /\ UNCHANGED pvars

\* Lines 1347-1351: the text handed to the renderer.
Reconstruct ==
    /\ pc = "img"
    /\ i > Len(markdownBlockList)
    /\ markdownTextReconstructed' = ConcatText(markdownBlockList)
    /\ pc' = "done"
    /\ UNCHANGED <<markdownText, title, tocStringList, tocNodes, tocString,
                   tocStack, i, tocHtmlString, markdownBlockList,
                   markdownTextTarget, imgSrcList>>
    /\ UNCHANGED rvars
    /\ UNCHANGED wvars
    /\ UNCHANGED pvars

\* Lines 1353-1355: the external renderer.
Render ==
    /\ pc = "done"
    /\ zennContent' = markdownToHtml(imgSrcList)
    /\ i' = 1
    /\ pc' = "resolve"
    /\ UNCHANGED <<markdownText, title, tocStringList, tocNodes, tocString,
                   tocStack, tocHtmlString, markdownBlockList,
                   markdownTextTarget, imgSrcList, markdownTextReconstructed,
                   readResult, warnings, html, formatResult>>
    /\ UNCHANGED wvars
    /\ UNCHANGED pvars

\* Lines 1358-1380: one iteration of the image resolution pass.  ok is the
\* outcome of fs.readFileSync.
ResolveStep ==
    /\ pc = "resolve"
    /\ i <= Len(imgSrcList)
    /\ \E ok \in BOOLEAN :
           /\ readResult' = Append(readResult, ok)
           /\ IF ok
              THEN /\ zennContent' =
                         ReplaceFirst(zennContent,
                                      PlaceholderAttr(imgSrcList[i]),
                                      imgBase64String(imgSrcList[i]))
                   /\ i' = i + 1
                   /\ UNCHANGED warnings
              ELSE /\ warnings' =
                         Append(warnings,
                                [kind |-> "image", title |-> title,
                                 imgSrc |-> imgSrcList[i]])
                   /\ i' = AfterReadFailure(i, Len(imgSrcList))
                   /\ UNCHANGED zennContent
    /\ UNCHANGED <<markdownText, pc, title, tocStringList, tocNodes,
                   tocString, tocStack, tocHtmlString, markdownBlockList,
                   markdownTextTarget, imgSrcList, markdownTextReconstructed,
                   html, formatResult>>
    /\ UNCHANGED wvars
    /\ UNCHANGED pvars

\* Lines 1382-1449: the page around the rendered content.
Assemble ==
    /\ pc = "resolve"
    /\ i > Len(imgSrcList)
    /\ html' = zennHtml(title, tocHtmlString, zennContent)
    /\ pc' = "format"
    /\ UNCHANGED <<markdownText, title, tocStringList, tocNodes, tocString,
                   tocStack, i, tocHtmlString, markdownBlockList,
                   markdownTextTarget, imgSrcList, markdownTextReconstructed,
                   zennContent, readResult, warnings, formatResult>>
    /\ UNCHANGED wvars
    /\ UNCHANGED pvars

\* Lines 1450-1469: format resolves or rejects, and buildHtml returns.
\* formatResult is how the promise of format has settled.
Format ==
    /\ pc = "format"
    /\ \E ok \in BOOLEAN :
           IF ok
           THEN /\ formatResult' = "resolved"
                /\ html' = format(html)
                /\ pc' = "returned"
                /\ UNCHANGED warnings
           ELSE LET caught == FormatCaught(html, warnings, title)
                IN /\ formatResult' = "rejected"
                   /\ html' = caught.html
                   /\ warnings' = caught.warnings
                   /\ pc' = caught.pc
    /\ UNCHANGED <<markdownText, title, tocStringList, tocNodes, tocString,
                   tocStack, i, tocHtmlString, markdownBlockList,
                   markdownTextTarget, imgSrcList, markdownTextReconstructed,
                   zennContent, readResult>>
    /\ UNCHANGED wvars
    /\ UNCHANGED pvars

Next ==
    \/ TocList
    \/ TocStep
    \/ TocHtml
    \/ ScanStep
    \/ ScanEnd
    \/ ImgStep
    \/ Reconstruct
    \/ Render
    \/ ResolveStep
    \/ Assemble
    \/ Format

Spec == Init /\ [][Next]_vars

\* ------------------------------------------------------------------------
\* Paths (Node's path module, POSIX flavour)
\* ------------------------------------------------------------------------
Sep == "/"

HasSep(p) == \E q \in 1..Len(p) : Ch(p, q) = Sep

FirstSep(p) ==
    CHOOSE q \in 1..Len(p) :
        Ch(p, q) = Sep /\ \A r \in 1..(q - 1) : Ch(p, r) # Sep

LastSep(p) ==
    CHOOSE q \in 1..Len(p) :
        Ch(p, q) = Sep /\ \A r \in (q + 1)..Len(p) : Ch(p, r) # Sep

\* p.split(path.sep)
RECURSIVE SplitPath(_)
SplitPath(p) ==
    IF HasSep(p)
    THEN <<Before(p, FirstSep(p))>> \o SplitPath(From(p, FirstSep(p) + 1))
    ELSE <<p>>

RECURSIVE JoinSegments(_)
JoinSegments(segs) ==
    IF segs = <<>> THEN ""
    ELSE IF Len(segs) = 1 THEN segs[1]
    ELSE segs[1] \o Sep \o JoinSegments(Tail(segs))

\* The segments of a normalised path: no empty segment, no "." segment.
Segments(p) == SelectSeq(SplitPath(p), LAMBDA seg : seg \notin {"", "."})

\* path.join(a, b) for a path a without ".." and a segment b.
PathJoin(a, b) ==
    LET segs == Segments(a) \o Segments(b)
    IN IF StartsWithAt(a, 1, Sep) THEN Sep \o JoinSegments(segs)
       ELSE IF segs = <<>> THEN "."
       ELSE JoinSegments(segs)

\* path.basename(p)
PathBasename(p) == IF HasSep(p) THEN From(p, LastSep(p) + 1) ELSE p

\* path.dirname(p) for a relative path p.
PathDirname(p) == IF HasSep(p) THEN Before(p, LastSep(p)) ELSE "."

RECURSIVE CommonLen(_, _)
CommonLen(a, b) ==
    IF a # <<>> /\ b # <<>> /\ a[1] = b[1]
    THEN 1 + CommonLen(Tail(a), Tail(b))
    ELSE 0

\* path.relative(from, to) when both are absolute, or both are relative to
\* the same working directory, and hold no ".." segment.
PathRelative(from, to) ==
    LET f == Segments(from)
        t == Segments(to)
        c == CommonLen(f, t)
    IN JoinSegments([q \in 1..(Len(f) - c) |-> ".."]
                        \o SubSeq(t, c + 1, Len(t)))

\* ------------------------------------------------------------------------
\* Array.prototype.sort() without a comparator: UTF-16 code unit order
\* ------------------------------------------------------------------------
\* The characters of the paths of the model, in code unit order.
CodeUnitOrder == "./abmwxyz"

CodeUnit(c) == CHOOSE q \in 1..Len(CodeUnitOrder) : Ch(CodeUnitOrder, q) = c

RECURSIVE StrLess(_, _)
StrLess(a, b) ==
    IF b = "" THEN FALSE
    ELSE IF a = "" THEN TRUE
    ELSE IF Ch(a, 1) = Ch(b, 1) THEN StrLess(From(a, 2), From(b, 2))
    ELSE CodeUnit(Ch(a, 1)) < CodeUnit(Ch(b, 1))

RECURSIVE Sorted(_)
Sorted(set) ==
    IF set = {} THEN <<>>
    ELSE LET least == CHOOSE a \in set :
                          \A b \in set \ {a} : StrLess(a, b)
         IN <<least>> \o Sorted(set \ {least})

\* ------------------------------------------------------------------------
\* exportWorkspace: the folder tree (lines 1593-1625)
\* ------------------------------------------------------------------------
rootPath == "/w"

\* The markdown files a workspace may hold, relative to rootPath.
AllFiles == {"z.md", "a.md", "a/x.md", "a/b/y.md", "a/b/x.md", "b/x.md"}

\* What getDocumentTitle may return for a document of the workspace.
DocTitles == {"", "Untitled", "t"}

\* The tree is a sequence of FolderObjects; a folderObjectList holds
\* positions in that sequence, and the root is at position 1.
FolderObjectOf(folderPath, folderName, folderNameAlias) ==
    [folderPath |-> folderPath, folderName |-> folderName,
     folderNameAlias |-> folderNameAlias,
     folderObjectList |-> <<>>, fileObjectList |-> <<>>]

FileObjectOf(fileName, docTitle, filePath) ==
    [fileName |-> fileName, title |-> docTitle, filePath |-> filePath]

\* The sibling look-up as the comment of line 1602 words it: by folderPath.
FindFolderByPath(tree, ptr, folderName) ==
    LET l == tree[ptr].folderObjectList
    IN IF \E q \in 1..Len(l) : tree[l[q]].folderPath = folderName
       THEN l[CHOOSE q \in 1..Len(l) :
                  /\ tree[l[q]].folderPath = folderName
                  /\ \A r \in 1..(q - 1) : tree[l[r]].folderPath # folderName]
       ELSE Undefined

\* folderObjectList.find(folderObject => folderObject.folderName ===
\* folderName)
FindFolder(tree, ptr, folderName) ==
    LET l == tree[ptr].folderObjectList
    IN IF \E q \in 1..Len(l) : tree[l[q]].folderName = folderName
       THEN l[CHOOSE q \in 1..Len(l) :
                  /\ tree[l[q]].folderName = folderName
                  /\ \A r \in 1..(q - 1) : tree[l[r]].folderName # folderName]
       ELSE Undefined

\* The iterations j < length - 1 of the inner loop: the folders of the path
\* are looked up or created; the result is the tree and folderObjectPointer.
RECURSIVE WalkFolders(_, _, _, _)
WalkFolders(tree, ptr, segs, j) ==
    IF j >= Len(segs) THEN [tree |-> tree, ptr |-> ptr]
    ELSE LET found == FindFolder(tree, ptr, segs[j])
             id == Len(tree) + 1
         IN IF found = Undefined
            THEN WalkFolders(
                     Append([tree EXCEPT ![ptr].folderObjectList =
                                             Append(@, id)],
                            FolderObjectOf(
                                PathJoin(tree[ptr].folderPath, segs[j]),
                                segs[j], segs[j])),
                     id, segs, j + 1)
            ELSE WalkFolders(tree, found, segs, j + 1)

\* The last iteration of the inner loop.
PushFile(tree, ptr, fileObject) ==
    [tree EXCEPT ![ptr].fileObjectList = Append(@, fileObject)]

\* ------------------------------------------------------------------------
\* exportWorkspace: the navigation markup (lines 1634-1698)
\* ------------------------------------------------------------------------
\* The markup is the sequence of its elements.
FileItem(active, href, text) ==
    [tag |-> "li.file", active |-> active, href |-> href, text |-> text]

FolderItem(active, href, text) ==
    [tag |-> "li.folder", active |-> active, href |-> href, text |-> text]

Tag(t) == [tag |-> t, active |-> FALSE, href |-> "", text |-> ""]

EndsWith(str, suffix) ==
    /\ Len(str) >= Len(suffix)
    /\ From(str, Len(str) - Len(suffix) + 1) = suffix

\* href.replace(/\.md$/, '.html'); the paths of the model hold no backslash.
MdToHtml(href) ==
    IF EndsWith(href, ".md")
    THEN Before(href, Len(href) - 2) \o ".html"
    ELSE href

\* The href with the target itself in place of its directory.
fileHrefFromTarget(relativeTargetFilePath, filePath) ==
    MdToHtml(PathRelative(relativeTargetFilePath, filePath))

fileHref(relativeTargetFilePath, filePath) ==
    MdToHtml(PathRelative(PathDirname(relativeTargetFilePath), filePath))

FileItems(fileObjectList, relativeTargetFilePath) ==
    [q \in 1..Len(fileObjectList) |->
        FileItem(relativeTargetFilePath = fileObjectList[q].filePath,
                 fileHref(relativeTargetFilePath, fileObjectList[q].filePath),
                 fileObjectList[q].title)]

\* The markup of a folder with the subfolders before the files.
FolderMarkupFoldersFirst(files, folders) == folders \o files

\* The markup of a folder: its files, then its subfolders.
FolderMarkup(files, folders) == files \o folders

RECURSIVE recursiveFileNavigationHtmlFactory(_, _, _)
RECURSIVE FolderItemsFrom(_, _, _, _)
recursiveFileNavigationHtmlFactory(tree, id, relativeTargetFilePath) ==
    FolderMarkup(FileItems(tree[id].fileObjectList, relativeTargetFilePath),
                 FolderItemsFrom(tree, id, relativeTargetFilePath, 1))

\* The iterations q, q + 1, ... of the loop over folderObjectList.
FolderItemsFrom(tree, id, relativeTargetFilePath, q) ==
    IF q > Len(tree[id].folderObjectList) THEN <<>>
    ELSE LET next == tree[id].folderObjectList[q]
             folderObjectNext == tree[next]
             relativeTargetFolderPath == PathDirname(relativeTargetFilePath)
             folderHref == PathRelative(relativeTargetFolderPath,
                                        folderObjectNext.folderPath)
         IN <<FolderItem(
                  folderObjectNext.folderPath = relativeTargetFolderPath,
                  folderHref, folderObjectNext.folderNameAlias),
              Tag("ul")>>
            \o recursiveFileNavigationHtmlFactory(tree, next,
                                                  relativeTargetFilePath)
            \o <<Tag("/ul"), Tag("/li")>>
            \o FolderItemsFrom(tree, id, relativeTargetFilePath, q + 1)

fileNavigationHtmlFactory(tree, relativeTargetFilePath) ==
    <<Tag("switcher"), Tag("ul")>>
        \o recursiveFileNavigationHtmlFactory(tree, 1, relativeTargetFilePath)
        \o <<Tag("/ul")>>

\* The tree after a render that uses up the folder lists it has walked.
TreeAfterRenderConsumed(tree, relativeTargetFilePath) ==
    [tree EXCEPT ![1].folderObjectList = <<>>]

\* The tree after a render: the renderer reads the tree, and writes only to
\* its own shallow copies of the folder objects.
TreeAfterRender(tree, relativeTargetFilePath) == tree

\* ------------------------------------------------------------------------
\* exportWorkspace (lines 1554-1731)
\* ------------------------------------------------------------------------
\* wsPc is the place exportWorkspace has reached:
\*   "idle"      exportWorkspace is not called
\*   "start"     called, before getFiles
\*   "noRoot"    the error message of line 1563 is shown; returned
\*   "noFiles"   the error message of line 1587 is shown; returned
\*   "tree"      in the tree loop, before markdownFileList[wsI]
\*   "convert"   in the conversion loop, before markdownFileList[wsI]
\*   "returned"  the conversion loop has ended
\*   "rejected"  an awaited openTextDocument has rejected: the promise of
\*               exportWorkspace is rejected
\* conversion[d] is the pipeline of markdownFileList[d]:
\*   state "none", "building" (buildHtml is pending), "buildRejected",
\*   "writing" (fs.writeFile is pending), "written", "writeFailed";
\*   message is what the write callback has shown: "none", "error", "info".
Workspaces == {fs \in SUBSET AllFiles : Cardinality(fs) <= MaxFiles}

\* The values of the parameter outFolder: "" is no folder given.
OutFolders == {"", "/o"}

\* \w of a regular expression.
WordChars ==
    "abcdefghijklmnopqrstuvwxyzABCDEFGHIJKLMNOPQRSTUVWXYZ0123456789_"

IsWordChar(c) == \E q \in 1..Len(WordChars) : Ch(WordChars, q) = c

\* p.replace(/\.\w+?$/, '.html'): the dot must be followed, up to the end of
\* the path, by one or more word characters.
ReplaceExtension(p) ==
    IF \E q \in 1..(Len(p) - 1) :
           Ch(p, q) = "." /\ \A r \in (q + 1)..Len(p) : IsWordChar(Ch(p, r))
    THEN Before(p, CHOOSE q \in 1..(Len(p) - 1) :
                       /\ Ch(p, q) = "."
                       /\ \A r \in (q + 1)..Len(p) : IsWordChar(Ch(p, r)))
             \o ".html"
    ELSE p

\* Lines 1708-1709: outPath of exportWorkspace.
WsOutPath(folder, markdownFilePath) ==
    ReplaceExtension(IF folder # ""
                     THEN PathJoin(folder, PathBasename(markdownFilePath))
                     ELSE markdownFilePath)

\* The conversions that the loop would wait for before iteration idx, were
\* the promise of buildHtml awaited.
AwaitedPrevious(idx) == {idx - 1} \cap (1..idx)

\* The conversions whose end the conversion loop waits for before iteration
\* idx: none, the promise of buildHtml is not awaited (line 1717).
Awaited(idx) == {}

Settled(state) == state \in {"buildRejected", "written", "writeFailed"}

RelativePath(d) == PathRelative(rootPath, markdownFileList[d])

\* exportWorkspace is called; no buildHtml of the model's single-document
\* part is running, its variables rest.
WsInit ==
    /\ BuildInit({""})
    /\ PageIdle
    /\ workspaceOpen \in BOOLEAN
    /\ workspaceFiles \in IF workspaceOpen THEN Workspaces ELSE {{}}
    /\ wsOutFolder \in OutFolders
    /\ wsPc = "start"
    /\ markdownFileList = <<>>
    /\ folderObject = <<>>
    /\ wsI = 1
    /\ fileNavigationHtml = <<>>
    /\ conversion = <<>>

\* Lines 1558-1595: the check of the workspace root, the file list, sorted,
\* and the root of the tree.
GetFiles ==
    /\ wsPc = "start"
    /\ IF ~workspaceOpen
       THEN /\ wsPc' = "noRoot"
            /\ notifications' = Append(notifications, "error")
            /\ UNCHANGED <<markdownFileList, folderObject, conversion>>
       ELSE /\ markdownFileList' =
                   Sorted({rootPath \o Sep \o f : f \in workspaceFiles})
            /\ IF workspaceFiles = {}
               THEN /\ wsPc' = "noFiles"
                    /\ notifications' = Append(notifications, "error")
                    /\ UNCHANGED <<folderObject, conversion>>
               ELSE /\ wsPc' = "tree"
                    /\ folderObject' =
                           <<FolderObjectOf("", PathBasename(rootPath),
                                            "root")>>
                    /\ conversion' =
                           [d \in 1..Cardinality(workspaceFiles) |->
                               [state |-> "none", message |-> "none",
                                outPath |-> ""]]
                    /\ UNCHANGED notifications
    /\ UNCHANGED <<workspaceFiles, wsI, fileNavigationHtml, workspaceOpen,
                   wsOutFolder>>
    /\ UNCHANGED bvars
    /\ UNCHANGED <<pageInput, pageState>>

\* Lines 1597-1625: one iteration of the tree loop.  opened is whether the
\* awaited workspace.openTextDocument resolves.
TreeStep ==
    /\ wsPc = "tree"
    /\ wsI <= Len(markdownFileList)
    /\ LET markdownFilePath == RelativePath(wsI)
           markdownFilePathList == SplitPath(markdownFilePath)
           walked == WalkFolders(folderObject, 1, markdownFilePathList, 1)
       IN \E opened \in BOOLEAN : \E docTitle \in DocTitles :
              IF opened
              THEN /\ folderObject' =
                          PushFile(walked.tree, walked.ptr,
                                   FileObjectOf(
                                       PathBasename(markdownFilePath),
                                       IF docTitle = "" THEN "Untitled"
                                       ELSE docTitle,
                                       markdownFilePath))
                   /\ wsI' = wsI + 1
                   /\ UNCHANGED wsPc
              ELSE /\ folderObject' = walked.tree
                   /\ wsPc' = "rejected"
                   /\ UNCHANGED wsI
    /\ UNCHANGED <<workspaceFiles, markdownFileList, fileNavigationHtml,
                   conversion>>
    /\ UNCHANGED <<workspaceOpen, wsOutFolder>>
    /\ UNCHANGED bvars
    /\ UNCHANGED pvars

\* Line 1597, the loop condition fails: the tree is built.
TreeEnd ==
    /\ wsPc = "tree"
    /\ wsI > Len(markdownFileList)
    /\ wsPc' = "convert"
    /\ wsI' = 1
    /\ UNCHANGED <<workspaceFiles, markdownFileList, folderObject,
                   fileNavigationHtml, conversion>>
    /\ UNCHANGED <<workspaceOpen, wsOutFolder>>
    /\ UNCHANGED bvars
    /\ UNCHANGED pvars

\* Line 1701: the loop is at the head of an iteration and waits for nothing.
ConvertReady ==
    /\ wsPc = "convert"
    /\ wsI <= Len(markdownFileList)
    /\ \A d \in Awaited(wsI) : Settled(conversion[d].state)

\* Lines 1701-1729: one iteration of the conversion loop: the navigation
\* markup, the awaited openTextDocument, and the call of buildHtml, whose
\* promise is not awaited.
ConvertStep ==
    /\ ConvertReady
    /\ fileNavigationHtml' =
           Append(fileNavigationHtml,
                  fileNavigationHtmlFactory(folderObject, RelativePath(wsI)))
    /\ folderObject' = TreeAfterRender(folderObject, RelativePath(wsI))
    /\ \E opened \in BOOLEAN :
           IF opened
           THEN /\ conversion' =
                       [conversion EXCEPT
                           ![wsI].state = "building",
                           ![wsI].outPath =
                               WsOutPath(wsOutFolder, markdownFileList[wsI])]
                /\ wsI' = wsI + 1
                /\ UNCHANGED wsPc
           ELSE /\ wsPc' = "rejected"
                /\ UNCHANGED <<wsI, conversion>>
    /\ UNCHANGED <<workspaceFiles, markdownFileList>>
    /\ UNCHANGED <<workspaceOpen, wsOutFolder>>
    /\ UNCHANGED bvars
    /\ UNCHANGED pvars

\* Line 1701, the loop condition fails: exportWorkspace returns.
ConvertEnd ==
    /\ wsPc = "convert"
    /\ wsI > Len(markdownFileList)
    /\ wsPc' = "returned"
    /\ UNCHANGED <<workspaceFiles, markdownFileList, folderObject, wsI,
                   fileNavigationHtml, conversion>>
    /\ UNCHANGED <<workspaceOpen, wsOutFolder>>
    /\ UNCHANGED bvars
    /\ UNCHANGED pvars

\* Lines 1717-1718: the promise of buildHtml settles.  When it resolves the
\* `then` callback calls fs.writeFile; when it rejects (the TypeError of the
\* table-of-contents loop) no handler is attached.
BuildSettle(d) ==
    /\ conversion[d].state = "building"
    /\ \E resolved \in BOOLEAN :
           conversion' =
               [conversion EXCEPT ![d].state =
                   IF resolved THEN "writing" ELSE "buildRejected"]
    /\ UNCHANGED <<workspaceFiles, wsPc, markdownFileList, folderObject, wsI,
                   fileNavigationHtml>>
    /\ UNCHANGED <<workspaceOpen, wsOutFolder>>
    /\ UNCHANGED bvars
    /\ UNCHANGED pvars

\* Lines 1719-1726: the callback of fs.writeFile.
WriteDone(d) ==
    /\ conversion[d].state = "writing"
    /\ \E err \in BOOLEAN :
           conversion' =
               [conversion EXCEPT
                   ![d].state = IF err THEN "writeFailed" ELSE "written",
                   ![d].message = IF err THEN "error" ELSE "info"]
    /\ UNCHANGED <<workspaceFiles, wsPc, markdownFileList, folderObject, wsI,
                   fileNavigationHtml>>
    /\ UNCHANGED <<workspaceOpen, wsOutFolder>>
    /\ UNCHANGED bvars
    /\ UNCHANGED pvars

WsNext ==
    \/ GetFiles
    \/ TreeStep
    \/ TreeEnd
    \/ ConvertStep
    \/ ConvertEnd
    \/ \E d \in 1..Len(conversion) : BuildSettle(d)
    \/ \E d \in 1..Len(conversion) : WriteDone(d)

SpecWs == WsInit /\ [][WsNext]_vars

\* ------------------------------------------------------------------------
\* exportPage (lines 1472-1525)
\* ------------------------------------------------------------------------
LanguageIds == {"none", "markdown", "md", "plaintext"}

\* Line 1160 with no extraLangIds configured, for every document.
isMdDocumentAny(languageId) == TRUE

\* Line 1160 with no extraLangIds configured.
isMdDocument(languageId) == languageId \in {"markdown", "md"}

WinSep == "\\"

LowerCase == "abcdefghijklmnopqrstuvwxyz"

UpperCase == "ABCDEFGHIJKLMNOPQRSTUVWXYZ"

\* p1.toUpperCase() for one letter.
toUpperCase(c) ==
    IF \E q \in 1..Len(LowerCase) : Ch(LowerCase, q) = c
    THEN Ch(UpperCase, CHOOSE q \in 1..Len(LowerCase) : Ch(LowerCase, q) = c)
    ELSE c

IsLetter(c) ==
    \E q \in 1..Len(LowerCase) : c \in {Ch(LowerCase, q), Ch(UpperCase, q)}

\* A path of the win32 flavour of the module path: it starts with a drive.
IsWin(p) == IsLetter(Ch(p, 1)) /\ Ch(p, 2) = ":" /\ Ch(p, 3) = WinSep

\* The documents of the editor, with the output folders of their platform;
\* "" is no output folder. No folder ends with a separator.
PageFiles ==
    ({"/w/x.md", "/w/x", "/w/x.tar.gz", "/w.d/x"} \X {"", "/o"})
        \cup ({"c:\\d\\x.md", "j:\\x.markdown", "k:\\x.md", "C:\\x.md",
                "e:\\x"}
                  \X {"", "d:\\o", "z:\\o"})

\* path.basename(p) where sep separates the segments.
BasenameSep(p, sep) ==
    IF \E q \in 1..Len(p) : Ch(p, q) = sep
    THEN From(p, 1 + CHOOSE q \in 1..Len(p) :
                         /\ Ch(p, q) = sep
                         /\ \A r \in (q + 1)..Len(p) : Ch(p, r) # sep)
    ELSE p

\* Line 1496.
PageTarget(folder, file) ==
    LET sep == IF IsWin(file) THEN WinSep ELSE Sep
    IN IF folder # "" THEN folder \o sep \o BasenameSep(file, sep) ELSE file

\* The drive letters of the regular expression of line 1498.
DriveLetters == "cdefghij"

\* Lines 1498-1500: outPath.replace(/^([cdefghij]):\\/, ...).
CapitalizeDrive(p) ==
    IF /\ \E q \in 1..Len(DriveLetters) : Ch(DriveLetters, q) = Ch(p, 1)
       /\ Ch(p, 2) = ":"
       /\ Ch(p, 3) = WinSep
    THEN toUpperCase(Ch(p, 1)) \o From(p, 2)
    ELSE p

\* Lines 1501-1503.
AppendHtml(p) == IF EndsWith(p, ".html") THEN p ELSE p \o ".html"

\* The outcomes of the promise of format: it resolves, it rejects, or it
\* never settles.
FormatFates == {"resolves", "rejects", "never"}

PageInit ==
    /\ BuildInit({""})
    /\ WsIdle
    /\ activeEditor \in LanguageIds
    /\ uriGiven \in BOOLEAN
    /\ docDirty \in BOOLEAN
    /\ \E f \in PageFiles : docFileName = f[1] /\ outFolder = f[2]
    /\ outFolderExists \in IF outFolder = "" THEN {FALSE} ELSE BOOLEAN
    /\ showNotification \in BOOLEAN
    /\ pagePc = "start"
    /\ saved = FALSE
    /\ statusBarMessage = "none"
    /\ folderCreated = FALSE
    /\ outPath = ""
    /\ promiseHtml = "none"
    /\ writeErr = "none"
    /\ timers = 0
    /\ notifications = <<>>

\* Lines 1473-1481: the check of the active editor, and the choice of doc.
PageStart ==
    /\ pagePc = "start"
    /\ IF activeEditor = "none" \/ ~isMdDocument(activeEditor)
       THEN /\ notifications' = Append(notifications, "error")
            /\ pagePc' = "aborted"
       ELSE /\ pagePc' = IF uriGiven THEN "opening" ELSE "prepare"
            /\ UNCHANGED notifications
    /\ UNCHANGED <<saved, statusBarMessage, folderCreated, outPath,
                   promiseHtml, writeErr, timers>>
    /\ UNCHANGED pageInput
    /\ UNCHANGED <<bvars, wvars>>

\* Line 1481: the awaited workspace.openTextDocument(uri) settles.
PageOpened ==
    /\ pagePc = "opening"
    /\ \E opened \in BOOLEAN :
           pagePc' = IF opened THEN "prepare" ELSE "rejected"
    /\ UNCHANGED <<saved, statusBarMessage, folderCreated, outPath,
                   promiseHtml, writeErr, timers, notifications>>
    /\ UNCHANGED pageInput
    /\ UNCHANGED <<bvars, wvars>>

\* Lines 1482-1504: the save, the status bar message, the output folder,
\* outPath in its four assignments, and the call of buildHtml, which runs up to its await of
\* promiseHtml or throws before it (pc "format" and "thrown" of buildHtml).
PagePrepare ==
    /\ pagePc = "prepare"
    /\ saved' = docDirty
    /\ statusBarMessage' = "shown"
    /\ folderCreated' = (outFolder # "" /\ ~outFolderExists)
    /\ \E target \in {PageTarget(outFolder, docFileName)} :
           \E replaced \in {ReplaceExtension(target)} :
               \E capitalized \in {CapitalizeDrive(replaced)} :
                   outPath' = AppendHtml(capitalized)
    /\ \E threw \in BOOLEAN, fate \in FormatFates :
           IF threw
           THEN pagePc' = "buildRejected" /\ UNCHANGED promiseHtml
           ELSE pagePc' = "format" /\ promiseHtml' = fate
    /\ UNCHANGED <<writeErr, timers, notifications>>
    /\ UNCHANGED pageInput
    /\ UNCHANGED <<bvars, wvars>>

\* Lines 1460-1469 and 1505-1507: promiseHtml settles, buildHtml returns
\* (after the warning of the catch when it rejected), and the callback of
\* then issues fs.writeFile.
PageFormatSettle ==
    /\ pagePc = "format"
    /\ promiseHtml # "never"
    /\ notifications' = IF promiseHtml = "rejects"
                        THEN Append(notifications, "warning")
                        ELSE notifications
    /\ pagePc' = "writing"
    /\ UNCHANGED <<saved, statusBarMessage, folderCreated, outPath,
                   promiseHtml, writeErr, timers>>
    /\ UNCHANGED pageInput
    /\ UNCHANGED <<bvars, wvars>>

\* Lines 1507-1521: the callback of fs.writeFile. The branch of the error
\* does not return, so that lines 1516-1520 run after it.
PageWriteDone ==
    /\ pagePc = "writing"
    /\ \E failed \in BOOLEAN :
           LET onError == failed /\ showNotification
               shown == IF onError THEN Append(notifications, "error")
                        ELSE notifications
           IN /\ writeErr' = IF failed THEN "error" ELSE "null"
              /\ notifications' = IF showNotification
                                  THEN Append(shown, "info")
                                  ELSE shown
              /\ timers' = timers + (IF onError THEN 1 ELSE 0)
                                  + (IF showNotification THEN 1 ELSE 0)
    /\ pagePc' = "done"
    /\ UNCHANGED <<saved, statusBarMessage, folderCreated, outPath,
                   promiseHtml>>
    /\ UNCHANGED pageInput
    /\ UNCHANGED <<bvars, wvars>>

\* Lines 1513 and 1519: a timer of setTimeout fires and disposes the status
\* bar message.
PageTimer ==
    /\ timers > 0
    /\ timers' = timers - 1
    /\ statusBarMessage' = "disposed"
    /\ UNCHANGED <<pagePc, saved, folderCreated, outPath, promiseHtml,
                   writeErr, notifications>>
    /\ UNCHANGED pageInput
    /\ UNCHANGED <<bvars, wvars>>

PageNext ==
    \/ PageStart
    \/ PageOpened
    \/ PagePrepare
    \/ PageFormatSettle
    \/ PageWriteDone
    \/ PageTimer

SpecPage == PageInit /\ [][PageNext]_vars

\* The event loop runs every callback that is ready, and the awaited
\* openTextDocument settles; a promiseHtml that never settles keeps
\* PageFormatSettle disabled.
SpecPageFair ==
    /\ PageInit
    /\ [][PageNext]_vars
    /\ WF_vars(PageStart)
    /\ WF_vars(PageOpened)
    /\ WF_vars(PagePrepare)
    /\ WF_vars(PageFormatSettle)
    /\ WF_vars(PageWriteDone)
    /\ WF_vars(PageTimer)

\* Either command is invoked.
CmdInit == PageInit \/ WsInit

CmdNext == PageNext \/ WsNext

SpecCmd == CmdInit /\ [][CmdNext]_vars

\* ------------------------------------------------------------------------
\* Vocabulary of the properties
\* ------------------------------------------------------------------------
\* The block scan loop has just ended and no block has been rewritten yet.
ScanFinished == pc = "img" /\ i = 1

TocAssembled == pc \in {"tocHtml", "scan", "img", "done"}

TocRendered == pc \in {"scan", "img", "done"}

\* The first delimiter of the document, its text, the end of its line, and
\* the first later line that begins with the same delimiter.
OpenPos(s) == FirstDelim(s)
OpenLen(s) == RunLen(s, OpenPos(s), Ch(s, OpenPos(s)))
OpenDelim(s) == SubSeq(s, OpenPos(s), OpenPos(s) + OpenLen(s) - 1)
OpenLineEnd(s) == FirstLineEnd(s, OpenPos(s) + OpenLen(s))
IsCloserAt(s, k) ==
    k >= OpenLineEnd(s) /\ StartsWithAt(s, k, LF \o OpenDelim(s))
HasCloser(s) == HasDelim(s) /\ \E k \in 1..Len(s) : IsCloserAt(s, k)
CloserPos(s) ==
    CHOOSE k \in 1..Len(s) :
        IsCloserAt(s, k) /\ \A j \in 1..(k - 1) : ~IsCloserAt(s, j)
\* There is at least one content line between the opening line and the
\* closing delimiter.
HasContentLine(s) == HasCloser(s) /\ CloserPos(s) > OpenLineEnd(s)
OpenKind(s) == IF Ch(s, OpenPos(s)) = BQ THEN "code" ELSE "callout"

\* Line j of the document lies strictly between the first delimiter line of
\* the document, a backtick fence, and the first later line that begins
\* with the same fence.
DocLines == SplitLines(markdownText)
FenceOpenLine ==
    CHOOSE o \in 1..Len(DocLines) :
        HasDelim(DocLines[o]) /\ \A j \in 1..(o - 1) : ~HasDelim(DocLines[j])
IsFenceCloseLine(c) ==
    /\ c > FenceOpenLine
    /\ StartsWithAt(DocLines[c], 1,
                    SubSeq(DocLines[FenceOpenLine], 1,
                           RunLen(DocLines[FenceOpenLine], 1, BQ)))
HasFirstFence ==
    /\ \E o \in 1..Len(DocLines) : HasDelim(DocLines[o])
    /\ StartsWithAt(DocLines[FenceOpenLine], 1, BQ3)
    /\ \E c \in 1..Len(DocLines) : IsFenceCloseLine(c)
FenceCloseLine ==
    CHOOSE c \in 1..Len(DocLines) :
        IsFenceCloseLine(c) /\ \A j \in 1..(c - 1) : ~IsFenceCloseLine(j)
InFirstFence(j) ==
    HasFirstFence /\ FenceOpenLine < j /\ j < FenceCloseLine

IsImageLine(line) == ImgMatchAt(line, 1)

HasPlaceholder(s) ==
    \E p \in 1..Len(s) : StartsWithAt(s, p, PlaceholderPrefix)

\* The line occurs in the document, and only inside the first fenced block.
FencedOnly(line) ==
    /\ \E j \in 1..Len(DocLines) : DocLines[j] = line
    /\ \A j \in 1..Len(DocLines) : DocLines[j] = line => InFirstFence(j)

Level(k) == HeaderLevel(tocStringList[k])

\* Each heading is at most one level deeper than the heading before it.
WellFormedHeadings ==
    /\ Len(tocStringList) > 2
    /\ Level(1) = 1
    /\ \A k \in 2..Len(tocStringList) :
           Level(k) >= 2 /\ Level(k) <= Level(k - 1) + 1

\* A heading of depth D >= 3 comes before any heading of depth D - 1.
HeadingUnderflow ==
    /\ Len(tocStringList) > 2
    /\ \E k \in 2..Len(tocStringList) :
           /\ Level(k) >= 3
           /\ \A j \in 1..(k - 1) : Level(j) # Level(k) - 1

NearestShallower(k) ==
    CHOOSE j \in 1..(k - 1) :
        /\ Level(j) = Level(k) - 1
        /\ \A m \in (j + 1)..(k - 1) : Level(m) # Level(k) - 1

Children(n) == tocNodes[n].children

ParentsOf(k) ==
    {n \in 1..Len(tocNodes) : \E c \in 1..Len(Children(n)) : Children(n)[c] = k}

LiCount == Cardinality({k \in 1..Len(tocHtmlString) :
                            tocHtmlString[k].tag = "li"})

\* ------------------------------------------------------------------------
\* Properties
\* ------------------------------------------------------------------------
\* C1: Block Scanner round-trip: the texts of the segments of the block scan
\* loop, concatenated in order, are the document text, and when no image is
\* rewritten the text handed to the renderer is the document text.
C1_RoundTrip ==
    /\ ScanFinished => ConcatText(markdownBlockList) = markdownText
    /\ (pc = "done" /\ imgSrcList = <<>>)
           => markdownTextReconstructed = markdownText

\* C2: a document without a run of three or more backticks or colons is
\* scanned into exactly one segment, of kind plain, holding the whole text.
C2_NoDelimiterOnePlain ==
    (ScanFinished /\ ~HasDelim(markdownText))
        => markdownBlockList = <<markdownBlock(markdownText, "plain")>>

\* C3: when a later line begins with the opening delimiter, the segment after
\* the leading plain one runs from the opening delimiter through that first
\* closing delimiter, whatever the number (one or more) of content lines in
\* between.
C3_ClosedBlockOneSegment ==
    (ScanFinished /\ HasContentLine(markdownText))
        => /\ Len(markdownBlockList) >= 2
           /\ markdownBlockList[2] =
                  markdownBlock(
                      SubSeq(markdownText, OpenPos(markdownText),
                             CloserPos(markdownText) + OpenLen(markdownText)),
                      OpenKind(markdownText))

\* C4: when the opening delimiter has no closing delimiter after it, the scan
\* gives the leading plain segment and one fenced or callout segment from the
\* opening delimiter to the end of the text, and nothing after it.
C4_UnclosedBlockToEnd ==
    (ScanFinished /\ HasDelim(markdownText) /\ ~HasCloser(markdownText))
        => /\ Len(markdownBlockList) = 2
           /\ markdownBlockList[2] =
                  markdownBlock(From(markdownText, OpenPos(markdownText)),
                                OpenKind(markdownText))

\* C5: an image reference on a line between an opening backtick fence and its
\* closing fence is never rewritten: when all image lines of the document lie
\* inside the fenced block, no src is recorded and the text handed to the
\* renderer holds no placeholder.
C5_FencedImageUntouched ==
    (/\ pc = "done"
     /\ \A j \in 1..Len(DocLines) : IsImageLine(DocLines[j]) => InFirstFence(j))
        => /\ imgSrcList = <<>>
           /\ ~HasPlaceholder(markdownTextReconstructed)

\* C6: a heading line (two to six '#' and a space) that lies only inside a
\* backtick-fenced block is not the line of any node of the table of
\* contents below the title.
C6_FencedHeadingNotInToc ==
    \A n \in 1..Len(tocNodes) :
        tocNodes[n].headerLevel >= 2 => ~FencedOnly(tocNodes[n].header)

\* C7: on a heading sequence in which no heading is more than one level
\* deeper than the one before it, assembly does not throw, the title is the
\* single root, the parent of every other heading is the nearest preceding
\* heading one level up, and children are in document order.
C7_WellFormedTree ==
    WellFormedHeadings
        => /\ pc # "thrown"
           /\ TocAssembled
                  => /\ tocString = <<1>>
                     /\ Len(tocNodes) = Len(tocStringList)
                     /\ \A k \in 1..Len(tocNodes) :
                            /\ tocNodes[k].header = tocStringList[k]
                            /\ \A c \in 2..Len(Children(k)) :
                                   Children(k)[c - 1] < Children(k)[c]
                     /\ ParentsOf(1) = {}
                     /\ \A k \in 2..Len(tocNodes) :
                            ParentsOf(k) = {NearestShallower(k)}

\* A sequence title, depth 2, depth 3, depth 2 has been assembled.
C7_Witness ==
    /\ pc = "done"
    /\ WellFormedHeadings
    /\ \E k \in 3..(Len(tocStringList) - 1) :
           Level(k - 1) = 2 /\ Level(k) = 3 /\ Level(k + 1) = 2

\* C8: a heading sequence of more than two lines in which a heading of depth
\* D >= 3 comes before any heading of depth D - 1 does not make buildHtml
\* throw.
C8_UnderflowDoesNotThrow ==
    HeadingUnderflow => pc # "thrown"

\* C9: the level of every node is greater than the level of its parent, and
\* a root of the tree is the title node, of level 1, and the only root.
C9_LevelInvariant ==
    /\ \A n \in 1..Len(tocNodes) :
           \A c \in 1..Len(Children(n)) :
               /\ Children(n)[c] \in 1..Len(tocNodes)
               /\ tocNodes[Children(n)[c]].headerLevel > tocNodes[n].headerLevel
    /\ Len(tocString) <= 1
    /\ \A r \in 1..Len(tocString) :
           /\ tocString[r] = 1
           /\ tocNodes[1].headerLevel = 1
           /\ tocNodes[1].header = "# " \o title
    /\ (TocAssembled /\ Len(tocStringList) > 2) => tocString = <<1>>

\* A tree with a node two levels below the title has been assembled, after
\* a return to a shallower level.
C9_Witness ==
    /\ pc = "done"
    /\ \E n \in 1..Len(tocNodes) :
           /\ tocNodes[n].headerLevel = 3
           /\ ParentsOf(n) # {}
           /\ \E m \in 1..(n - 1) : tocNodes[m].headerLevel = 3
    /\ \E k \in 2..Len(tocStringList) : Level(k) < Level(k - 1)

\* C10: with at most 2 heading lines (title included) the table of contents
\* has no list item; with more, once assembly has completed, it starts with
\* the list item of the title and has one list item per heading line.
C10_DegenerateToc ==
    TocRendered
        => IF Len(tocStringList) <= 2
           THEN LiCount = 0 /\ tocHtmlString = <<>>
           ELSE /\ LiCount = Len(tocStringList)
                /\ tocHtmlString[1] = LiToken(1, 1)
                /\ tocNodes[1].header = "# " \o title
                /\ {tocHtmlString[k].node : k \in
                        {m \in 1..Len(tocHtmlString) :
                             tocHtmlString[m].tag = "li"}}
                       = 1..Len(tocStringList)

\* A document with exactly one heading of depth 2..6 has been rendered.
C10_Witness ==
    /\ pc = "done"
    /\ Len(tocStringList) = 2
    /\ tocHtmlString = <<>>

\* ------------------------------------------------------------------------
\* Vocabulary of the image properties
\* ------------------------------------------------------------------------
Hashes(n) == SubSeq("######", 1, n)

\* A heading line: one to six '#' and a space at the start of the line.
IsHeadingLine(line) ==
    \E n \in 1..6 : StartsWithAt(line, 1, Hashes(n) \o " ")

NoHeadingLine == \A j \in 1..Len(DocLines) : ~IsHeadingLine(DocLines[j])

IsDigit(c) == c \in {"0", "1", "2", "3", "4", "5", "6", "7", "8", "9"}

\* t is a sizing annotation: optional blanks, "=", optional blanks, digits,
\* "x", digits.
IsSizing(t) ==
    \E e \in 1..Len(t) : \E x \in (e + 2)..(Len(t) - 1) :
        /\ \A j \in 1..(e - 1) : IsWhiteSpace(Ch(t, j))
        /\ Ch(t, e) = "="
        /\ Ch(t, x) = "x"
        /\ \E d \in (e + 1)..(x - 1) :
               /\ \A j \in (e + 1)..(d - 1) : IsWhiteSpace(Ch(t, j))
               /\ \A j \in d..(x - 1) : IsDigit(Ch(t, j))
        /\ \A j \in (x + 1)..Len(t) : IsDigit(Ch(t, j))

\* The line is, as a whole, an image reference ![alt](src) or
\* ![alt](src =WxH).
IsRefLine(line) ==
    /\ StartsWithAt(line, 1, "![")
    /\ HasCharFrom(line, 3, "]")
    /\ LET rb == FirstCharFrom(line, 3, "]")
       IN /\ Ch(line, rb + 1) = "("
          /\ Ch(line, Len(line)) = ")"
          /\ Len(line) - 1 >= rb + 2
          /\ \A j \in (rb + 2)..(Len(line) - 1) : Ch(line, j) # ")"

RefAlt(line) == SubSeq(line, 3, FirstCharFrom(line, 3, "]") - 1)

RefInner(line) ==
    SubSeq(line, FirstCharFrom(line, 3, "]") + 2, Len(line) - 1)

RefSrc(line) ==
    LET inner == RefInner(line)
    IN IF \E p \in 2..Len(inner) : IsSizing(From(inner, p))
       THEN Before(inner,
                   CHOOSE p \in 2..Len(inner) :
                       /\ IsSizing(From(inner, p))
                       /\ \A j \in 2..(p - 1) : ~IsSizing(From(inner, j)))
       ELSE inner

IsPlaceholderRef(line) ==
    IsRefLine(line) /\ StartsWithAt(RefInner(line), 1, PlaceholderPrefix)

\* The src is local: it starts with none of the four prefixes.
IsLocalSrc(src) ==
    \A prefix \in {"http://", "https://", "data:image/", "data:application/"} :
        ~StartsWithAt(src, 1, prefix)

\* The reference on the line is to be rewritten.
IsEligibleRef(line) ==
    IsRefLine(line) /\ ~IsPlaceholderRef(line) /\ IsLocalSrc(RefSrc(line))

ExpectedLine(line) ==
    IF IsEligibleRef(line) THEN imgReplaced(RefAlt(line), RefSrc(line))
    ELSE line

ExpectedText(text) ==
    LET ls == SplitLines(text)
    IN JoinLines([k \in 1..Len(ls) |-> ExpectedLine(ls[k])])

ExpectedSrcs(text) ==
    LET el == SelectSeq(SplitLines(text), IsEligibleRef)
    IN [k \in 1..Len(el) |-> RefSrc(el[k])]

\* ------------------------------------------------------------------------
\* Properties of the title and of the image rewrite
\* ------------------------------------------------------------------------
\* C11: a document without any heading line has the title 'Untitled' and a
\* table of contents without list items.
C11_NoHeadingUntitled ==
    (TocRendered /\ NoHeadingLine)
        => /\ title = "Untitled"
           /\ tocStringList = <<"# Untitled">>
           /\ LiCount = 0

\* A document with text but no heading line has been rendered.
C11_Witness ==
    /\ pc = "done"
    /\ NoHeadingLine
    /\ markdownBlockList # <<>>

\* C12: the rewrite of a plain or callout segment replaces each full-line
\* image reference whose src is local (and that carries no placeholder yet)
\* by ![alt](./TOBE_BASE64_IMGPATH_{src}_TO_BE_BASE64_IMGPATH), appends its
\* src to the recorded list, and leaves every other line, and every fenced
\* segment, as it is: one recorded entry per rewrite.
C12_ImageEligibility ==
    [][(pc = "img" /\ i <= Len(markdownBlockList) /\ i' = i + 1)
          => IF markdownBlockList[i].type \in {"plain", "callout"}
             THEN /\ markdownBlockList'[i].text =
                         ExpectedText(markdownBlockList[i].text)
                  /\ imgSrcList' =
                         imgSrcList \o ExpectedSrcs(markdownBlockList[i].text)
             ELSE /\ markdownBlockList'[i] = markdownBlockList[i]
                  /\ imgSrcList' = imgSrcList]_vars

\* C13: on a text in which every image reference line already carries the
\* placeholder the rewrite changes nothing and records nothing, and the
\* rewrite of a rewritten segment changes nothing and records nothing.
C13_RewriteIdempotent ==
    /\ (/\ pc = "done"
        /\ \A j \in 1..Len(DocLines) :
               IsRefLine(DocLines[j]) => IsPlaceholderRef(DocLines[j]))
           => /\ imgSrcList = <<>>
              /\ StartsWithAt(markdownText, 1, markdownTextReconstructed)
    /\ pc = "done"
           => \A b \in 1..Len(markdownBlockList) :
                  ImgScanned(markdownBlockList[b].type)
                      => ImgRewriteLoop(markdownBlockList[b].text, 0, <<>>)
                             = [text |-> markdownBlockList[b].text,
                                srcs |-> <<>>]

\* ------------------------------------------------------------------------
\* Properties of the image resolution pass
\* ------------------------------------------------------------------------
FailedIndices == {k \in 1..Len(readResult) : ~readResult[k]}

ImageWarnings == SelectSeq(warnings, LAMBDA w : w.kind = "image")

\* C14: when buildHtml has returned, every recorded src has been processed,
\* each failed read has exactly one warning (naming its src), as many
\* placeholders of a src stay in the rendered HTML as reads of that src
\* failed, and the returned page holds that rendered HTML.
C14_ReadFailureContained ==
    pc = "returned"
        => /\ Len(readResult) = Len(imgSrcList)
           /\ Len(ImageWarnings) = Cardinality(FailedIndices)
           /\ \A k \in FailedIndices :
                  Cardinality({w \in 1..Len(ImageWarnings) :
                                  ImageWarnings[w].imgSrc = imgSrcList[k]})
                      = Cardinality({f \in FailedIndices :
                                        imgSrcList[f] = imgSrcList[k]})
           /\ \A k \in 1..Len(imgSrcList) :
                  Cardinality({c \in 1..Len(zennContent) :
                                  zennContent[c]
                                      = PlaceholderAttr(imgSrcList[k])})
                      = Cardinality({f \in FailedIndices :
                                        imgSrcList[f] = imgSrcList[k]})
           /\ html.content = zennContent

\* buildHtml has returned after a failed read that was followed by a
\* successful one.
C14_Witness ==
    /\ pc = "returned"
    /\ \E k \in 1..(Len(readResult) - 1) :
           ~readResult[k] /\ readResult[k + 1]

\* ------------------------------------------------------------------------
\* Vocabulary of the folder tree and of the navigation
\* ------------------------------------------------------------------------
\* The tree loop has ended.
TreeBuilt == wsPc \in {"convert", "returned"}

FolderIds == 1..Len(folderObject)

\* The folders whose folderObjectList holds id.
FolderParents(id) ==
    {p \in FolderIds :
        \E q \in 1..Len(folderObject[p].folderObjectList) :
            folderObject[p].folderObjectList[q] = id}

\* The folder names on the way from the root to folder id; the arena holds
\* a folder after its parent.
RECURSIVE NamesTo(_)
NamesTo(id) ==
    IF id = 1 \/ FolderParents(id) = {} THEN <<>>
    ELSE LET p == CHOOSE p \in FolderParents(id) : TRUE
         IN IF p < id
            THEN NamesTo(p) \o <<folderObject[id].folderName>>
            ELSE <<>>

\* The places <<folder, position>> of the FileObjects of the tree.
FilePlaces ==
    {pl \in FolderIds \X (1..MaxFiles + 1) :
        pl[2] <= Len(folderObject[pl[1]].fileObjectList)}

FileAt(pl) == folderObject[pl[1]].fileObjectList[pl[2]]

NoneSettled ==
    \A d \in 1..Len(conversion) : conversion[d].state \in {"none", "building"}

\* The rendered markups, by position in markdownFileList.
Rendered == 1..Len(fileNavigationHtml)

\* The directory segments of a relative file path.
DirSegs(p) == SubSeq(SplitPath(p), 1, Len(SplitPath(p)) - 1)

\* The segments with every ".." resolved against the segment before it.
RECURSIVE Resolve(_, _)
Resolve(stack, segs) ==
    IF segs = <<>> THEN stack
    ELSE IF segs[1] = ".."
    THEN Resolve(SubSeq(stack, 1, Len(stack) - 1), Tail(segs))
    ELSE Resolve(Append(stack, segs[1]), Tail(segs))

\* Where a browser lands that follows href from the page of target.
Landing(target, href) ==
    JoinSegments(Resolve(DirSegs(target),
                         IF href = "" THEN <<>> ELSE SplitPath(href)))

HtmlToMd(p) ==
    IF EndsWith(p, ".html") THEN Before(p, Len(p) - 4) \o ".md" ELSE p

FileItemsOf(d) ==
    {k \in 1..Len(fileNavigationHtml[d]) :
        fileNavigationHtml[d][k].tag = "li.file"}

FolderItemsOf(d) ==
    {k \in 1..Len(fileNavigationHtml[d]) :
        fileNavigationHtml[d][k].tag = "li.folder"}

\* The file that item k of markup d links to.
LinkedFile(d, k) ==
    HtmlToMd(Landing(RelativePath(d), fileNavigationHtml[d][k].href))

\* The folder that label k of markup d stands for.
LabelledFolder(d, k) ==
    Landing(RelativePath(d), fileNavigationHtml[d][k].href)

\* Folder path dir is the directory of p or a directory above it.
IsAncestorFolder(dir, p) == StartsWithAt(p, 1, dir \o Sep)

\* ------------------------------------------------------------------------
\* Properties of the navigation markup
\* ------------------------------------------------------------------------
\* C16: in the markup rendered for a target, a file item is active exactly
\* when it is the target's (so exactly one is), and a folder label is active
\* exactly when its folder is an ancestor of the target.
C16_ActiveMarking ==
    \A d \in Rendered :
        /\ \A k \in FileItemsOf(d) :
               fileNavigationHtml[d][k].active
                   <=> LinkedFile(d, k) = RelativePath(d)
        /\ Cardinality({k \in FileItemsOf(d) :
                           fileNavigationHtml[d][k].active}) = 1
        /\ \A k \in FolderItemsOf(d) :
               fileNavigationHtml[d][k].active
                   <=> IsAncestorFolder(LabelledFolder(d, k), RelativePath(d))

\* The href goes up by ".." segments first and then down by names, never
\* higher than needed, and ends in ".html".
IsShortestHref(target, href) ==
    LET segs == SplitPath(href)
        dir == DirSegs(target)
        ups == Cardinality({q \in 1..Len(segs) : segs[q] = ".."})
    IN /\ \A q \in 1..Len(segs) :
              /\ segs[q] \notin {"", "."}
              /\ segs[q] = ".." <=> q <= ups
       /\ ups < Len(segs)
       /\ ups <= Len(dir)
       /\ ups > 0 => segs[ups + 1] # dir[Len(dir) - ups + 1]
       /\ EndsWith(href, ".html")
       /\ ~EndsWith(href, ".md.html")

\* The href of file f in markup d.
HrefOf(d, f) ==
    fileNavigationHtml[d][CHOOSE k \in FileItemsOf(d) : LinkedFile(d, k) = f]
        .href

\* Every file has exactly one link in markup d, whose href is the path from
\* the target's directory to the file, ".md" replaced by ".html".
HrefsRight(d) ==
    /\ Cardinality(FileItemsOf(d)) = Cardinality(workspaceFiles)
    /\ \A f \in workspaceFiles :
           Cardinality({k \in FileItemsOf(d) : LinkedFile(d, k) = f}) = 1
    /\ \A k \in FileItemsOf(d) :
           IsShortestHref(RelativePath(d), fileNavigationHtml[d][k].href)
    /\ (RelativePath(d) = "a/b/y.md" /\ "z.md" \in workspaceFiles)
           => HrefOf(d, "z.md") = "../../z.html"

\* C17 as stated: in the markups rendered so far, every href is the path from the target's directory to
\* the file with ".md" replaced by ".html", and a file has different hrefs
\* in the markups of two targets in different directories.
HrefsDifferAcrossDirectories ==
    /\ \A d \in Rendered : HrefsRight(d)
    /\ \A d, e \in Rendered :
           DirSegs(RelativePath(d)) # DirSegs(RelativePath(e))
               => \A f \in workspaceFiles : HrefOf(d, f) # HrefOf(e, f)

C17_HrefsDifferAcrossDirectories ==
    NoneSettled => HrefsDifferAcrossDirectories

\* C17, amended: in the markups rendered so far, every href is the path from the target's directory to the
\* file with ".md" replaced by ".html"; a file has the same href in the
\* markups of two targets of one directory, and different hrefs in the
\* markups of two targets whose directories lie at different depths.
HrefsByDirectory ==
    /\ \A d \in Rendered : HrefsRight(d)
    /\ \A d, e \in Rendered :
           \A f \in workspaceFiles :
               /\ DirSegs(RelativePath(d)) = DirSegs(RelativePath(e))
                      => HrefOf(d, f) = HrefOf(e, f)
               /\ Len(DirSegs(RelativePath(d))) # Len(DirSegs(RelativePath(e)))
                      => HrefOf(d, f) # HrefOf(e, f)

C17_Hrefs == NoneSettled => HrefsByDirectory

\* The markups of a/b/y.md and of z.md are rendered, both linking z.md.
C17_Witness ==
    \E d, e \in Rendered :
        /\ RelativePath(d) = "a/b/y.md"
        /\ RelativePath(e) = "z.md"
        /\ HrefOf(d, "z.md") = "../../z.html"
        /\ HrefOf(e, "z.md") = "z.html"

\* ------------------------------------------------------------------------
\* The layout of the navigation markup
\* ------------------------------------------------------------------------
CountTag(nav, a, b, t) == Cardinality({k \in a..b : nav[k].tag = t})

\* The "/li" that closes the folder label at position k: the first one
\* after which the lists opened since k are all closed.
EndOfLabel(nav, k) ==
    CHOOSE m \in (k + 1)..Len(nav) :
        /\ nav[m].tag = "/li"
        /\ CountTag(nav, k, m, "ul") = CountTag(nav, k, m, "/ul")
        /\ \A n \in (k + 1)..(m - 1) :
               ~(/\ nav[n].tag = "/li"
                 /\ CountTag(nav, k, n, "ul") = CountTag(nav, k, n, "/ul"))

\* The position of the label of folder id in markup d.
LabelOf(d, id) ==
    CHOOSE k \in FolderItemsOf(d) :
        LabelledFolder(d, k) = folderObject[id].folderPath

\* The position of the first item of folder id: after the opening of the
\* outer list for the root, after the label and its "ul" for another folder.
FirstItem(d, id) == IF id = 1 THEN 3 ELSE LabelOf(d, id) + 2

\* The position of the label of the r-th subfolder of folder id, were the
\* files first and each subfolder closed before the next one.
RECURSIVE SubfolderAt(_, _, _)
SubfolderAt(d, id, r) ==
    IF r = 1 THEN FirstItem(d, id) + Len(folderObject[id].fileObjectList)
    ELSE EndOfLabel(fileNavigationHtml[d], SubfolderAt(d, id, r - 1)) + 1

\* The position after the last item of folder id.
AfterItems(d, id) ==
    LET n == Len(folderObject[id].folderObjectList)
    IN IF n = 0
       THEN FirstItem(d, id) + Len(folderObject[id].fileObjectList)
       ELSE EndOfLabel(fileNavigationHtml[d], SubfolderAt(d, id, n)) + 1

\* In markup d the items of folder id are its files in tree order, then its
\* subfolders in tree order, each with its own list, and the list of the
\* folder is closed after them.
FolderLaidOut(d, id) ==
    LET nav == fileNavigationHtml[d]
        files == folderObject[id].fileObjectList
        subs == folderObject[id].folderObjectList
    IN /\ \A q \in 1..Len(files) :
              LET k == FirstItem(d, id) + q - 1
              IN /\ k <= Len(nav)
                 /\ nav[k].tag = "li.file"
                 /\ LinkedFile(d, k) = files[q].filePath
                 /\ nav[k].text = files[q].title
       /\ \A r \in 1..Len(subs) :
              LET k == SubfolderAt(d, id, r)
              IN /\ k + 1 <= Len(nav)
                 /\ nav[k].tag = "li.folder"
                 /\ k = LabelOf(d, subs[r])
                 /\ nav[k].text = folderObject[subs[r]].folderNameAlias
                 /\ nav[k + 1].tag = "ul"
                 /\ AfterItems(d, subs[r]) + 1
                        = EndOfLabel(nav, k)
       /\ AfterItems(d, id) <= Len(nav)
       /\ nav[AfterItems(d, id)].tag = "/ul"

\* C18: in every markup rendered so far, each folder's files come first in
\* tree order, then its subfolders in tree order, each expanded inside its
\* own nested list; every file of the tree has exactly one link and every
\* folder below the root exactly one label.
C18_TraversalOrder ==
    NoneSettled
        => \A d \in Rendered :
               /\ Cardinality(FileItemsOf(d)) = Cardinality(FilePlaces)
               /\ \A pl \in FilePlaces :
                      Cardinality({k \in FileItemsOf(d) :
                                      LinkedFile(d, k) = FileAt(pl).filePath})
                          = 1
               /\ Cardinality(FolderItemsOf(d)) = Len(folderObject) - 1
               /\ \A id \in FolderIds \ {1} :
                      Cardinality({k \in FolderItemsOf(d) :
                                      LabelledFolder(d, k)
                                          = folderObject[id].folderPath})
                          = 1
               /\ \A id \in FolderIds : FolderLaidOut(d, id)
               /\ AfterItems(d, 1) = Len(fileNavigationHtml[d])

\* A markup is rendered for a tree in which a folder holds a file and a
\* subfolder, and the root holds a file and two folders.
C18_Witness ==
    /\ NoneSettled
    /\ Rendered # {}
    /\ workspaceFiles = {"a/b/y.md", "a/x.md", "b/x.md", "z.md"}
           \/ workspaceFiles = {"a/b/y.md", "a/x.md", "z.md"}

C20_FailureIsolation ==
    /\ wsPc = "rejected"
           => \A d \in 1..Len(markdownFileList) :
                  d # wsI => conversion[d].state # "none"
    /\ \A d \in 1..Len(conversion) :
           conversion[d].state \in {"buildRejected", "writeFailed"}
               => conversion[d].message = "error"

\* ------------------------------------------------------------------------
\* Properties of the order of the table of contents and of the scan loop
\* ------------------------------------------------------------------------
\* The nodes of the list items of the rendered table of contents, in order.
RECURSIVE LiNodes(_)
LiNodes(tokens) ==
    IF tokens = <<>> THEN <<>>
    ELSE (IF tokens[1].tag = "li" THEN <<tokens[1].node>> ELSE <<>>)
             \o LiNodes(Tail(tokens))

\* C26: when the tree is assembled (more than two entries, no throw), no
\* heading less deep than a heading lies between that heading's parent and
\* the heading itself, and the list items of the rendered table of contents
\* are the headings in document order.
C26_TocDocumentOrder ==
    (TocRendered /\ Len(tocStringList) > 2)
        => /\ \A n \in 2..Len(tocNodes) :
                  \A p \in ParentsOf(n) :
                      \A m \in (p + 1)..(n - 1) : Level(m) >= Level(n)
           /\ LiNodes(tocHtmlString) = [k \in 1..Len(tocNodes) |-> k]

\* C30: every iteration of the block scan loop leaves a proper suffix of the
\* remaining text, shorter by at least three characters, and the part it
\* takes away holds a delimiter; so the loop ends after at most a third of
\* the text's length in iterations.
C30_ScanLoopShortens ==
    [][(pc = "scan" /\ pc' = "scan")
          => LET cut == Len(markdownTextTarget) - Len(markdownTextTarget')
             IN /\ cut >= 3
                /\ markdownTextTarget' = From(markdownTextTarget, cut + 1)
                /\ HasDelim(Before(markdownTextTarget, cut + 1))]_vars

\* The loop has made two iterations and has ended.
C30_Witness ==
    /\ pc = "img"
    /\ Len(markdownBlockList) >= 4

\* ------------------------------------------------------------------------
\* Properties of the format step
\* ------------------------------------------------------------------------
FormatWarnings == SelectSeq(warnings, LAMBDA w : w.kind = "format")

\* C22: when the promise of format has rejected, buildHtml has returned (it
\* has not thrown), the returned html is the page as it was handed to
\* format, and exactly one warning about the format is shown.
C22_FormatFallback ==
    formatResult = "rejected"
        => /\ pc = "returned"
           /\ html = zennHtml(title, tocHtmlString, zennContent)
           /\ Len(FormatWarnings) = 1
           /\ FormatWarnings[1].title = title

\* buildHtml has returned a page with content after format has rejected.
C22_Witness ==
    /\ formatResult = "rejected"
    /\ pc = "returned"
    /\ zennContent # <<>>

\* ------------------------------------------------------------------------
\* Properties of the fan-out
\* ------------------------------------------------------------------------
Pending(state) == state \in {"building", "writing"}

\* C21: whatever the earlier conversions are doing, the loop can go on with
\* the next document, and every pending write can complete, so that
\* several conversions are pending at once and a later document can be
\* written before an earlier one.
C21_FanOut ==
    /\ (wsPc = "convert" /\ wsI <= Len(markdownFileList)) => ConvertReady
    /\ \A d \in 1..Len(conversion) :
           conversion[d].state = "writing" => ENABLED WriteDone(d)

\* Three conversions are issued; the second is written while the first is
\* still being built and the third waits for its write.
C21_Witness ==
    /\ Len(conversion) = 3
    /\ conversion[1].state = "building"
    /\ conversion[2].state = "written"
    /\ conversion[3].state = "writing"

\* C28: no two documents of one export are written to the same output path.
C28_DistinctOutPaths ==
    \A d, e \in 1..Len(conversion) :
        (d # e /\ conversion[d].state # "none" /\ conversion[e].state # "none")
            => conversion[d].outPath # conversion[e].outPath

\* ------------------------------------------------------------------------
\* Properties of exportPage and of the preconditions
\* ------------------------------------------------------------------------
\* The notifications of the callback of fs.writeFile.
WriteNotifications ==
    SelectSeq(notifications, LAMBDA n : n \in {"error", "info"})

\* The first letter of a path that starts with a drive, in upper case.
UpperDrive(p) == IF IsWin(p) THEN toUpperCase(Ch(p, 1)) \o From(p, 2) ELSE p

\* The output path of a document: the extension replaced by ".html",
\* ".html" appended when the path does not end with it, the drive in upper
\* case.
ExpectedOutPath ==
    UpperDrive(AppendHtml(ReplaceExtension(PageTarget(outFolder,
                                                      docFileName))))

\* C23: once buildHtml of exportPage awaits the formatted text, the write
\* of the file is eventually issued, whatever becomes of the format.
C23_FormatNeverBlocksWrite ==
    (pagePc = "format") ~> (pagePc \in {"writing", "done"})

\* C24: a command whose precondition fails (no active editor or an active
\* document that is not markdown for exportPage, no workspace or no .md
\* file for exportWorkspace) shows exactly one error message and does
\* nothing else: nothing is saved, no status bar message is shown, no folder
\* is created, nothing is built or rendered and nothing is written.
C24_PreconditionAborts ==
    /\ (activeEditor \notin {"markdown", "md"}
            /\ pagePc \notin {"idle", "start"})
           => pagePc = "aborted"
    /\ pagePc = "aborted"
           => /\ notifications = <<"error">>
              /\ ~saved /\ ~folderCreated
              /\ statusBarMessage = "none"
              /\ outPath = "" /\ promiseHtml = "none" /\ writeErr = "none"
              /\ timers = 0
              /\ ~ENABLED PageNext
    /\ ((~workspaceOpen \/ workspaceFiles = {})
            /\ wsPc \notin {"idle", "start"})
           => wsPc \in {"noRoot", "noFiles"}
    /\ wsPc \in {"noRoot", "noFiles"}
           => /\ notifications = <<"error">>
              /\ folderObject = <<>>
              /\ fileNavigationHtml = <<>>
              /\ conversion = <<>>
              /\ pc = "start"

\* exportPage was given a uri, but the active editor shows plain text.
C24_Witness ==
    pagePc = "aborted" /\ activeEditor = "plaintext" /\ uriGiven /\ docDirty

\* C25: the output path of exportPage is the path of the document, or its
\* base name under the output folder, with the extension replaced by
\* ".html", ".html" appended when missing, and the drive letter, whichever
\* it is, in upper case.
C25_OutPath == outPath # "" => outPath = ExpectedOutPath

\* C27: with notifications on, the completed write of exportPage shows
\* exactly one message, an error when the write failed and a success when
\* it succeeded.
C27_OneNotificationPerWrite ==
    (pagePc = "done" /\ showNotification)
        => WriteNotifications =
               <<IF writeErr = "error" THEN "error" ELSE "info">>

\* C29: a status bar message that exportPage shows is eventually disposed.
C29_StatusBarDisposed ==
    (statusBarMessage = "shown") ~> (statusBarMessage = "disposed")

====
